---- MODULE Spec2Model ----
(***************************************************************************)
(* The Unix self-pipe signal bridge of src/platform/unix/mod.rs:           *)
(* init_os_handler / deinit_os_handler (one control thread, the caller     *)
(* serialises them), os_handler (the signal handler, preemptive) and       *)
(* block_ctrl_c (one waiting thread), over an explicit descriptor table.   *)
(***************************************************************************)
EXTENDS Integers, Sequences, FiniteSets, TLC

\* ---------------------------------------------------------------- bounds
\* Number of descriptors the process may have open for pipes (3, 4, ...).
NumFds == 4
\* Number of pipe objects the kernel can hold at once.
MaxPipes == 2
\* Capacity of a pipe buffer, in bytes.
PipeCap == 1
\* Number of read results fed to the match of block_ctrl_c under ReadSpec.
MaxReads == 3

\* ------------------------------------------------------------- constants
\* static mut PIPE: (RawFd, RawFd) = (-1, -1)
Sentinel == -1

\* Descriptors above stdin, stdout and stderr.
Fds == 3 .. (2 + NumFds)
Pipes == 1 .. MaxPipes

\* The signals of init_os_handler, in the order it registers them.
SigSeq == <<"SIGINT", "SIGTERM", "SIGHUP">>
Sigs == {"SIGINT", "SIGTERM", "SIGHUP"}
\* Dispositions: default, ignore, another party's handler, os_handler.
ExtDisps == {"SigDfl", "SigIgn", "Custom"}
Disps == ExtDisps \cup {"os_handler"}

\* An entry of the descriptor table that refers to nothing.
Closed == <<0, "none">>

VARIABLES
  termination,  \* cfg(feature = "termination"), fixed per build
  PIPE,         \* static mut PIPE: <<read end, write end>>
  disp,         \* the process's disposition of each signal
  fdtab,        \* descriptor -> Closed or <<pipe, "r" | "w">>
  buf,          \* pipe -> bytes pending in its buffer
  nb,           \* pipe -> write end is O_NONBLOCK
  cpc,          \* control thread: position in init / deinit
  ccall,        \* control thread: the call in progress or last made
  cow,          \* init_os_handler's overwrite argument
  ci,           \* index in SigSeq of the signal being handled
  rn,           \* number of signals a rollback restores
  olds,         \* sigint_old, sigterm_old, sighup_old
  cret,         \* the value close_pipe's caller returns afterwards
  cres,         \* result of the last call
  hpc, hfd,     \* os_handler: position, descriptor loaded from PIPE.1
  wpc, wfd,     \* block_ctrl_c: position, pipe.0 of this iteration
  wp,           \* the pipe a blocked read is sleeping on
  wres,         \* result of the last block_ctrl_c call
  reads,        \* the results read has returned to block_ctrl_c
                \* (recorded under ReadSpec only)
  prev,         \* history: <<"init", overwrite>> after an init that
                \* returned Ok(()), NoPrev after any other call
  pre,          \* history: the dispositions when init was called
  dfail         \* history: signals whose restoration failed in deinit

vars == <<termination, PIPE, disp, fdtab, buf, nb, cpc, ccall, cow, ci, rn,
          olds, cret, cres, hpc, hfd, wpc, wfd, wp, wres, reads, prev, pre,
          dfail>>

ctlLocals == <<ci, rn, olds, cret>>
handlerVars == <<hpc, hfd>>
waiterVars == <<wpc, wfd, wp, wres, reads>>
history == <<prev, pre, dfail>>

\* ------------------------------------------------------------- helpers
Min(S) == CHOOSE x \in S : \A y \in S : x <= y

NoOlds == [s \in Sigs |-> "SigDfl"]
NoPrev == <<"other", FALSE>>

\* Number of signals this build manages: SIGINT, and with the termination
\* feature SIGTERM and SIGHUP.
NSigs == IF termination THEN 3 ELSE 1
Managed == {SigSeq[i] : i \in 1..NSigs}

IsOpen(fd) == fd \in Fds /\ fdtab[fd] # Closed
FreeFds == {fd \in Fds : fdtab[fd] = Closed}
Refs(p) == {fd \in Fds : fdtab[fd][1] = p}
Writers(p) == {fd \in Fds : fdtab[fd] = <<p, "w">>}
FreePipes == {p \in Pipes : Refs(p) = {} /\ ~(wpc = "blocked" /\ wp = p)}

\* Faulty variant of is_handler_init: a bridge is always reported.
is_handler_init_always == TRUE

\* pub unsafe fn is_handler_init() -> bool
is_handler_init == PIPE[1] # Sentinel /\ PIPE[2] # Sentinel

\* close(fd), its result ignored: an open descriptor is released (also when
\* close reports EINTR or EIO), anything else is EBADF and changes nothing.
\* A pipe nobody refers to any more loses its buffer.
CloseFd(tab, fd) == IF fd \in Fds THEN [tab EXCEPT ![fd] = Closed] ELSE tab

Gone(tab, p) == {fd \in Fds : tab[fd][1] = p} = {} /\ ~(wpc = "blocked" /\ wp = p)

\* ---------------------------------------------------------------- Init
Init ==
  /\ termination \in BOOLEAN
  /\ PIPE = <<Sentinel, Sentinel>>
  /\ disp \in [Sigs -> ExtDisps]
  /\ \A s \in Sigs : (~termination /\ s # "SIGINT") => disp[s] = "SigDfl"
  /\ fdtab = [fd \in Fds |-> Closed]
  /\ buf = [p \in Pipes |-> 0]
  /\ nb = [p \in Pipes |-> FALSE]
  /\ cpc = "idle" /\ ccall = "none" /\ cow = FALSE /\ ci = 0 /\ rn = 0
  /\ olds = NoOlds /\ cret = "none" /\ cres = "none"
  /\ hpc = "idle" /\ hfd = Sentinel
  /\ wpc = "idle" /\ wfd = Sentinel /\ wp = 0 /\ wres = "none"
  /\ reads = <<>>
  /\ prev = NoPrev
  /\ pre = NoOlds
  /\ dfail = {}

\* ------------------------------------------------- the control thread
\* A call begins.
Begin(call, ow) ==
  /\ cpc = "idle"
  /\ ccall' = call /\ cow' = ow

\* A call returns r: its locals die.
Finish(r) ==
  /\ cpc' = "done" /\ cres' = r
  /\ ci' = 0 /\ rn' = 0 /\ olds' = NoOlds /\ cret' = "none"

\* fn pipe2(flags): two new descriptors, the lowest free ones, on a new
\* pipe whose buffer is empty and whose ends block; or an error (EMFILE,
\* ENFILE, ...) and nothing allocated.
pipe2(r, w, p) ==
  /\ r = Min(FreeFds) /\ w = Min(FreeFds \ {r}) /\ p = Min(FreePipes)
  /\ fdtab' = [fdtab EXCEPT ![r] = <<p, "r">>, ![w] = <<p, "w">>]
  /\ buf' = [buf EXCEPT ![p] = 0]
  /\ nb' = [nb EXCEPT ![p] = FALSE]

\* init_os_handler, entry: PIPE = pipe2(O_CLOEXEC)?;
\* on an error the ? returns it and PIPE keeps the value it had.
InitPipe ==
  \E ow \in BOOLEAN :
    /\ Begin("init", ow)
    /\ pre' = disp /\ dfail' = {}
    /\ \/ /\ Cardinality(FreeFds) >= 2 /\ FreePipes # {}
          /\ \E r, w \in Fds, p \in Pipes :
               /\ pipe2(r, w, p)
               /\ PIPE' = <<r, w>>
          /\ cpc' = "i_fcntl"
          /\ UNCHANGED <<cres, ctlLocals>>
       \/ /\ Finish("Err_pipe2")
          /\ UNCHANGED <<PIPE, fdtab, buf, nb>>
    /\ UNCHANGED <<termination, disp, handlerVars, waiterVars, prev>>

\* Faulty variant of init_os_handler: the write end is left blocking.
InitFcntlSkips ==
  /\ cpc = "i_fcntl"
  /\ cpc' = "i_reg" /\ ci' = 1
  /\ UNCHANGED <<termination, PIPE, disp, fdtab, buf, nb, ccall, cow, rn,
                 olds, cret, cres, handlerVars, waiterVars, history>>

\* fcntl(PIPE.1, F_SETFL(O_NONBLOCK)); on an error close_pipe, return it.
InitFcntl ==
  /\ cpc = "i_fcntl"
  /\ \/ /\ nb' = [nb EXCEPT ![fdtab[PIPE[2]][1]] = TRUE]
        /\ cpc' = "i_reg" /\ ci' = 1
        /\ UNCHANGED cret
     \/ /\ cpc' = "close_w" /\ cret' = "Err_fcntl"
        /\ UNCHANGED <<nb, ci>>
  /\ UNCHANGED <<termination, PIPE, disp, fdtab, buf, ccall, cow, rn, olds,
                 cres, handlerVars, waiterVars, history>>

\* Faulty variant of the conflict test: overwrite is taken to be true.
IsConflictNever(old) == FALSE

\* if !overwrite && sigint_old.handler() != SigHandler::SigDfl
IsConflict(old) == ~cow /\ old # "SigDfl"

\* sigaction(SigSeq[ci], &new_action) and the test that follows it:
\*   Err(e): restore the signals registered before this one, close_pipe,
\*           return e;
\*   !overwrite && old.handler() != SigDfl: restore this signal and the
\*           ones before it, close_pipe, return EEXIST;
\*   otherwise go on to the next signal, or return Ok(()) after the last.
InitRegister ==
  /\ cpc = "i_reg"
  /\ LET s == SigSeq[ci] IN
     \/ /\ disp' = [disp EXCEPT ![s] = "os_handler"]
        /\ IF IsConflict(disp[s])
             THEN /\ cpc' = "i_restore" /\ rn' = ci /\ ci' = 1
                  /\ cret' = "EEXIST"
                  /\ olds' = [olds EXCEPT ![s] = disp[s]]
                  /\ UNCHANGED cres
             ELSE IF ci < NSigs
               THEN /\ ci' = ci + 1
                    /\ olds' = [olds EXCEPT ![s] = disp[s]]
                    /\ UNCHANGED <<cpc, rn, cret, cres>>
               ELSE Finish("Ok")
     \/ /\ cret' = "Err_sigaction"
        /\ IF ci = 1
             THEN cpc' = "close_w" /\ UNCHANGED <<ci, rn>>
             ELSE cpc' = "i_restore" /\ rn' = ci - 1 /\ ci' = 1
        /\ UNCHANGED <<disp, olds, cres>>
  /\ UNCHANGED <<termination, PIPE, fdtab, buf, nb, ccall, cow,
                 handlerVars, waiterVars, history>>

\* signal::sigaction(sig, &sig_old).unwrap() for the first rn signals, in
\* the order SIGINT, SIGTERM, SIGHUP; an error panics out of the call.
InitRestore ==
  /\ cpc = "i_restore"
  /\ LET s == SigSeq[ci] IN
     \/ /\ disp' = [disp EXCEPT ![s] = olds[s]]
        /\ IF ci < rn
             THEN ci' = ci + 1 /\ UNCHANGED cpc
             ELSE cpc' = "close_w" /\ UNCHANGED ci
     \/ /\ cpc' = "panicked"
        /\ UNCHANGED <<disp, ci>>
  /\ UNCHANGED <<termination, PIPE, fdtab, buf, nb, ccall, cow, rn, olds,
                 cret, cres, handlerVars, waiterVars, history>>

\* Faulty variant of close_pipe's first step: PIPE.1 is reset by itself as
\* soon as it is closed.
ClosePipeWriteResets ==
  /\ cpc = "close_w"
  /\ fdtab' = CloseFd(fdtab, PIPE[2])
  /\ PIPE' = <<PIPE[1], Sentinel>>
  /\ cpc' = "close_r"
  /\ UNCHANGED <<termination, disp, buf, nb, ccall, cow, ctlLocals, cres,
                 handlerVars, waiterVars, history>>

\* Faulty variant of close_pipe's first step: the write end stays open.
ClosePipeWriteLeaks ==
  /\ cpc = "close_w"
  /\ cpc' = "close_r"
  /\ UNCHANGED <<termination, PIPE, disp, fdtab, buf, nb, ccall, cow,
                 ctlLocals, cres, handlerVars, waiterVars, history>>

\* close_pipe: let _ = unistd::close(PIPE.1);
ClosePipeWrite ==
  /\ cpc = "close_w"
  /\ fdtab' = CloseFd(fdtab, PIPE[2])
  /\ cpc' = "close_r"
  /\ UNCHANGED <<termination, PIPE, disp, buf, nb, ccall, cow, ctlLocals,
                 cres, handlerVars, waiterVars, history>>

\* Faulty variant of close_pipe's second step: the read end stays open.
ClosePipeReadLeaks ==
  /\ cpc = "close_r"
  /\ cpc' = "close_reset"
  /\ UNCHANGED <<termination, PIPE, disp, fdtab, buf, nb, ccall, cow,
                 ctlLocals, cres, handlerVars, waiterVars, history>>

\* close_pipe: let _ = unistd::close(PIPE.0);
ClosePipeRead ==
  /\ cpc = "close_r"
  /\ fdtab' = CloseFd(fdtab, PIPE[1])
  /\ buf' = [p \in Pipes |-> IF Gone(fdtab', p) THEN 0 ELSE buf[p]]
  /\ nb' = [p \in Pipes |-> IF Gone(fdtab', p) THEN FALSE ELSE nb[p]]
  /\ cpc' = "close_reset"
  /\ UNCHANGED <<termination, PIPE, disp, ccall, cow, ctlLocals, cres,
                 handlerVars, waiterVars, history>>

\* Faulty variant of close_pipe's last step: PIPE keeps the closed
\* descriptors.
ClosePipeResetKeeps ==
  /\ cpc = "close_reset"
  /\ Finish(cret)
  /\ UNCHANGED <<termination, PIPE, disp, fdtab, buf, nb, ccall, cow,
                 handlerVars, waiterVars, history>>

\* close_pipe: PIPE = (-1, -1); then the caller returns.
ClosePipeReset ==
  /\ cpc = "close_reset"
  /\ PIPE' = <<Sentinel, Sentinel>>
  /\ Finish(cret)
  /\ UNCHANGED <<termination, disp, fdtab, buf, nb, ccall, cow,
                 handlerVars, waiterVars, history>>

\* The bridge's pipe: both descriptors of PIPE are open, the two ends of
\* one pipe.
Installed ==
  /\ is_handler_init /\ IsOpen(PIPE[1]) /\ IsOpen(PIPE[2])
  /\ fdtab[PIPE[1]] = <<fdtab[PIPE[2]][1], "r">>
  /\ fdtab[PIPE[2]][2] = "w"

\* block_ctrl_c is asleep in a read on the bridge's pipe.
AsleepOnBridge ==
  Installed /\ wpc = "blocked" /\ wp = fdtab[PIPE[1]][1]

\* Faulty variant of deinit_os_handler: the dispositions are not restored,
\* the pipe is closed at once.
DeinitEntrySkipsRestore ==
  /\ Begin("deinit", FALSE)
  /\ IF ~is_handler_init
       THEN Finish("ENOENT")
       ELSE /\ cpc' = "close_w" /\ cret' = "Ok"
            /\ UNCHANGED <<ci, rn, olds, cres>>
  /\ UNCHANGED <<termination, PIPE, disp, fdtab, buf, nb, handlerVars,
                 waiterVars, history>>

\* deinit_os_handler, entry: if !is_handler_init() { return Err(ENOENT) }
DeinitEntry ==
  /\ Begin("deinit", FALSE)
  /\ IF ~is_handler_init
       THEN Finish("ENOENT")
       ELSE /\ cpc' = "d_sig" /\ ci' = 1 /\ cret' = "Ok"
            /\ UNCHANGED <<rn, olds, cres>>
  /\ UNCHANGED <<termination, PIPE, disp, fdtab, buf, nb, handlerVars,
                 waiterVars, history>>

\* Faulty variant of deinit_os_handler's sigaction: the signal is set to
\* be ignored.
DeinitRestoreIgnores ==
  /\ cpc = "d_sig"
  /\ LET s == SigSeq[ci] IN
     \/ disp' = [disp EXCEPT ![s] = "SigIgn"] /\ UNCHANGED dfail
     \/ dfail' = dfail \cup {s} /\ UNCHANGED disp
  /\ IF ci < NSigs
       THEN ci' = ci + 1 /\ UNCHANGED cpc
       ELSE cpc' = "close_w" /\ UNCHANGED ci
  /\ UNCHANGED <<termination, PIPE, fdtab, buf, nb, ccall, cow, rn, olds,
                 cret, cres, handlerVars, waiterVars, prev, pre>>

\* let _ = signal::sigaction(SigSeq[ci], &SigDfl action): the result is
\* dropped, so a failure leaves the disposition and goes on.
DeinitRestore ==
  /\ cpc = "d_sig"
  /\ LET s == SigSeq[ci] IN
     \/ disp' = [disp EXCEPT ![s] = "SigDfl"] /\ UNCHANGED dfail
     \/ dfail' = dfail \cup {s} /\ UNCHANGED disp
  /\ IF ci < NSigs
       THEN ci' = ci + 1 /\ UNCHANGED cpc
       ELSE cpc' = "close_w" /\ UNCHANGED ci
  /\ UNCHANGED <<termination, PIPE, fdtab, buf, nb, ccall, cow, rn, olds,
                 cret, cres, handlerVars, waiterVars, prev, pre>>

\* The caller has the result; the next call may begin. What is remembered
\* of this one: whether it was an init_os_handler that returned Ok(()),
\* with which overwrite, and the dispositions that init found.
Return ==
  /\ cpc = "done"
  /\ cpc' = "idle" /\ ccall' = "none" /\ cow' = FALSE /\ cres' = "none"
  /\ IF ccall = "init" /\ cres = "Ok"
       THEN prev' = <<"init", cow>> /\ pre' = pre
       ELSE prev' = NoPrev /\ pre' = NoOlds
  /\ dfail' = {}
  /\ UNCHANGED <<termination, PIPE, disp, fdtab, buf, nb, ctlLocals,
                 handlerVars, waiterVars>>

\* ---------------------------------------------------------- os_handler
\* The kernel runs os_handler for a signal whose disposition it is.
Intercepts(s) == disp[s] = "os_handler"

HandlerEntry ==
  /\ hpc = "idle"
  /\ \E s \in Sigs : Intercepts(s)
  /\ hpc' = "load"
  /\ UNCHANGED <<termination, PIPE, disp, fdtab, buf, nb, cpc, ccall, cow,
                 ctlLocals, cres, hfd, waiterVars, history>>

\* let fd = BorrowedFd::borrow_raw(PIPE.1);
HandlerLoad ==
  /\ hpc = "load"
  /\ hfd' = PIPE[2]
  /\ hpc' = "write"
  /\ UNCHANGED <<termination, PIPE, disp, fdtab, buf, nb, cpc, ccall, cow,
                 ctlLocals, cres, waiterVars, history>>

\* Faulty variant of the write: no byte ever enters a pipe.
WriteResultNone(fd) == "EBADF"

\* What write(fd, &[0u8]) does: "byte" (one byte enters the buffer),
\* "EAGAIN" (full buffer, O_NONBLOCK), "block" (full buffer, blocking
\* descriptor: the call sleeps), "EBADF" (not an open write end).
WriteResult(fd) ==
  IF ~IsOpen(fd) \/ fdtab[fd][2] # "w" THEN "EBADF"
  ELSE IF buf[fdtab[fd][1]] < PipeCap THEN "byte"
  ELSE IF nb[fdtab[fd][1]] THEN "EAGAIN"
  ELSE "block"

\* Faulty variant of os_handler: it returns without writing.
HandlerWriteSkips ==
  /\ hpc = "write"
  /\ hpc' = "idle" /\ hfd' = Sentinel
  /\ UNCHANGED <<termination, PIPE, disp, fdtab, buf, nb, cpc, ccall, cow,
                 ctlLocals, cres, waiterVars, history>>

\* let _ = unistd::write(fd, &[0u8]); the result is dropped.
HandlerWrite ==
  /\ hpc = "write"
  /\ WriteResult(hfd) # "block"
  /\ IF WriteResult(hfd) = "byte"
       THEN buf' = [buf EXCEPT ![fdtab[hfd][1]] = @ + 1]
       ELSE UNCHANGED buf
  /\ hpc' = "idle" /\ hfd' = Sentinel
  /\ UNCHANGED <<termination, PIPE, disp, fdtab, nb, cpc, ccall, cow,
                 ctlLocals, cres, waiterVars, history>>

\* -------------------------------------------------------- block_ctrl_c
\* Faulty variant of the match: any Ok(_) breaks out of the loop.
BlockOutcomeAnyOk(r) ==
  CASE r \in {"Ok1", "Ok0"} -> "Awaited"
    [] r = "EBADF" -> "HandlerRemoved"
    [] r = "EINTR" -> "retry"
    [] OTHER -> "Err"

\* Faulty variant of the match: Err(EINTR) is returned like any other
\* error.
BlockOutcomeNoRetry(r) ==
  CASE r = "Ok1" -> "Awaited"
    [] r \in {"Ok0", "EBADF"} -> "HandlerRemoved"
    [] OTHER -> "Err"

\* Faulty variant of the match: Err(EBADF) is returned like any other
\* error.
BlockOutcomeStrict(r) ==
  CASE r = "Ok1" -> "Awaited"
    [] r = "Ok0" -> "HandlerRemoved"
    [] r = "EINTR" -> "retry"
    [] OTHER -> "Err"

\* The match of block_ctrl_c on the result of read: Ok(1) breaks out of
\* the loop to Ok(Awaited); Ok(_) and Err(EBADF) return
\* Ok(HandlerRemoved); Err(EINTR) goes round the loop; Err(e) returns it.
BlockOutcome(r) ==
  CASE r = "Ok1" -> "Awaited"
    [] r \in {"Ok0", "EBADF"} -> "HandlerRemoved"
    [] r = "EINTR" -> "retry"
    [] OTHER -> "Err"

\* A block_ctrl_c call begins.
WaitCall ==
  /\ wpc = "idle"
  /\ wpc' = "load"
  /\ UNCHANGED <<termination, PIPE, disp, fdtab, buf, nb, cpc, ccall, cow,
                 ctlLocals, cres, handlerVars, wfd, wp, wres, reads,
                 history>>

\* The caller of block_ctrl_c has the result; it may call again.
WaitFinish ==
  /\ wpc = "done"
  /\ wpc' = "idle" /\ wres' = "none" /\ wfd' = Sentinel
  /\ UNCHANGED <<termination, PIPE, disp, fdtab, buf, nb, cpc, ccall, cow,
                 ctlLocals, cres, handlerVars, wp, reads, history>>

\* Faulty variant of block_ctrl_c: the descriptor loaded by an earlier
\* iteration of the loop is used again.
WaitLoadCached ==
  /\ wpc = "load"
  /\ wfd' = IF wfd # Sentinel THEN wfd ELSE PIPE[1]
  /\ wpc' = "read"
  /\ UNCHANGED <<termination, PIPE, disp, fdtab, buf, nb, cpc, ccall, cow,
                 ctlLocals, cres, handlerVars, wp, wres, reads, history>>

\* let pipe = std::ptr::read_volatile(&raw const PIPE);
WaitLoad ==
  /\ wpc = "load"
  /\ wfd' = PIPE[1]
  /\ wpc' = "read"
  /\ UNCHANGED <<termination, PIPE, disp, fdtab, buf, nb, cpc, ccall, cow,
                 ctlLocals, cres, handlerVars, wp, wres, reads, history>>

\* The call returns what the match makes of read result r.
WaitReturn(r) ==
  /\ wpc' = "done" /\ wres' = BlockOutcome(r) /\ wp' = 0
  /\ UNCHANGED wfd

\* unistd::read(pipe.0, &mut buf[..]) is entered: EBADF when pipe.0 is not
\* an open read end; one byte when the buffer holds one; 0 when the
\* buffer is empty and no write end is open; otherwise the thread sleeps
\* on the pipe.
WaitRead ==
  /\ wpc = "read"
  /\ IF ~IsOpen(wfd) \/ fdtab[wfd][2] # "r"
       THEN WaitReturn("EBADF") /\ UNCHANGED buf
       ELSE LET p == fdtab[wfd][1] IN
            IF buf[p] > 0
              THEN WaitReturn("Ok1") /\ buf' = [buf EXCEPT ![p] = @ - 1]
            ELSE IF Writers(p) = {}
              THEN WaitReturn("Ok0") /\ UNCHANGED buf
            ELSE wpc' = "blocked" /\ wp' = p /\ UNCHANGED <<buf, wres, wfd>>
  /\ UNCHANGED <<termination, PIPE, disp, fdtab, nb, cpc, ccall, cow,
                 ctlLocals, cres, handlerVars, reads, history>>

\* The sleeping read wakes: a byte has arrived, or the last write end of
\* its pipe was closed. (Closing the read descriptor itself does not wake
\* it: the call holds the pipe.)
WaitWake ==
  /\ wpc = "blocked"
  /\ \/ /\ buf[wp] > 0
        /\ WaitReturn("Ok1")
        /\ buf' = [p \in Pipes |->
                     IF p = wp THEN (IF Refs(p) = {} THEN 0 ELSE buf[p] - 1)
                     ELSE buf[p]]
        /\ nb' = [nb EXCEPT ![wp] = IF Refs(wp) = {} THEN FALSE ELSE @]
     \/ /\ buf[wp] = 0 /\ Writers(wp) = {}
        /\ WaitReturn("Ok0")
        /\ buf' = buf
        /\ nb' = [nb EXCEPT ![wp] = IF Refs(wp) = {} THEN FALSE ELSE @]
  /\ UNCHANGED <<termination, PIPE, disp, fdtab, cpc, ccall, cow,
                 ctlLocals, cres, handlerVars, reads, history>>

\* The sleeping read is interrupted by a signal whose handler was
\* installed without SA_RESTART: Err(EINTR), and the loop goes round.
WaitInterrupted ==
  /\ wpc = "blocked"
  /\ buf[wp] = 0
  /\ BlockOutcome("EINTR") = "retry"
  /\ wpc' = "load" /\ wp' = 0
  /\ nb' = [nb EXCEPT ![wp] = IF Refs(wp) = {} THEN FALSE ELSE @]
  /\ UNCHANGED <<termination, PIPE, disp, fdtab, buf, cpc, ccall, cow,
                 ctlLocals, cres, handlerVars, wfd, wres, reads,
                 history>>

\* ------------------------------------------------------- specification
CtlStep ==
  \/ InitFcntl \/ InitRegister \/ InitRestore
  \/ ClosePipeWrite \/ ClosePipeRead \/ ClosePipeReset
  \/ DeinitRestore

Next ==
  \/ InitPipe
  \/ InitFcntl
  \/ InitRegister
  \/ InitRestore
  \/ ClosePipeWrite
  \/ ClosePipeRead
  \/ ClosePipeReset
  \/ DeinitEntry
  \/ DeinitRestore
  \/ Return
  \/ HandlerEntry
  \/ HandlerLoad
  \/ HandlerWrite
  \/ WaitCall
  \/ WaitFinish
  \/ WaitLoad
  \/ WaitRead
  \/ WaitWake
  \/ WaitInterrupted

Spec == Init /\ [][Next]_vars

\* The scheduler runs every thread that can take a step, and a handler
\* the kernel has dispatched runs to its end; nobody is obliged to make a
\* call, and no signal is obliged to arrive.
HandlerStep == HandlerLoad \/ HandlerWrite
WaiterStep == WaitLoad \/ WaitRead \/ WaitWake
FairSpec ==
  Spec /\ WF_vars(CtlStep) /\ WF_vars(HandlerStep) /\ WF_vars(WaiterStep)

\* The match of block_ctrl_c on its own: read returns any result, whatever
\* the descriptor, and the loop of block_ctrl_c handles it.
ReadResults == {"Ok1", "Ok0", "EBADF", "EINTR", "EIO", "EFAULT"}

ReadAny ==
  /\ wpc = "read"
  /\ Len(reads) < MaxReads
  /\ \E r \in ReadResults :
       /\ reads' = Append(reads, r)
       /\ IF BlockOutcome(r) = "retry"
            THEN wpc' = "load" /\ UNCHANGED <<wfd, wp, wres>>
            ELSE WaitReturn(r)
  /\ UNCHANGED <<termination, PIPE, disp, fdtab, buf, nb, cpc, ccall, cow,
                 ctlLocals, cres, handlerVars, history>>

ReadNext ==
  \/ WaitCall
  \/ WaitLoad
  \/ ReadAny
  \/ WaitFinish

ReadSpec == Init /\ [][ReadNext]_vars

TypeOK ==
  /\ termination \in BOOLEAN
  /\ PIPE \in (Fds \cup {Sentinel}) \X (Fds \cup {Sentinel})
  /\ disp \in [Sigs -> Disps]
  /\ fdtab \in [Fds -> {Closed} \cup (Pipes \X {"r", "w"})]
  /\ buf \in [Pipes -> 0..PipeCap]
  /\ nb \in [Pipes -> BOOLEAN]
  /\ ci \in 0..3 /\ rn \in 0..3
  /\ wp \in {0} \cup Pipes
  /\ Len(reads) <= MaxReads

\* ---------------------------------------------------------------- claims
InitDone == cpc = "done" /\ ccall = "init"
DeinitDone == cpc = "done" /\ ccall = "deinit"
OsErrors == {"Err_pipe2", "Err_fcntl", "Err_sigaction"}
Conflict == \E s \in Managed : pre[s] # "SigDfl"

\* C1 as stated: when init_os_handler returns Ok the bridge holds two valid
\* descriptors, and when it returns an error PIPE is (-1, -1), whatever
\* the state before the call.
C1_AsStated ==
  InitDone => /\ (cres = "Ok" => is_handler_init)
              /\ (cres # "Ok" => PIPE = <<Sentinel, Sentinel>>)

\* C1 amended: when init_os_handler returns Ok the bridge holds the two
\* open ends of one pipe; when it returns the error of pipe2, PIPE is what
\* it was before the call (the sentinel only if no bridge was installed);
\* when it returns any other error, PIPE is (-1, -1).
C1_Step ==
  (cpc # "done" /\ cpc' = "done" /\ ccall' = "init") =>
     /\ (cres' = "Ok" => Installed')
     /\ (cres' = "Err_pipe2" => PIPE' = PIPE)
     /\ (cres' \notin {"Ok", "Err_pipe2"} => PIPE' = <<Sentinel, Sentinel>>)
C1_InitResult == [][C1_Step]_vars

\* C1 witness: a second init_os_handler failed in pipe2 and the first
\* bridge is still in PIPE.
C1_Witness == InitDone /\ cres = "Err_pipe2" /\ Installed

\* C2 as stated: init_os_handler(false) called with a managed signal not at
\* its default returns EEXIST, every managed disposition as before.
C2_AsStated ==
  (InitDone /\ ~cow /\ Conflict) =>
     /\ cres = "EEXIST"
     /\ \A s \in Managed : disp[s] = pre[s]

\* C2 amended: init_os_handler(false) called with a managed signal not at
\* its default never returns Ok: it returns EEXIST, or the error of the OS
\* call that failed before the conflict was met; and when it returns, every
\* signal has the disposition it had before the call.
C2_Conflict ==
  (InitDone /\ ~cow /\ Conflict) =>
     /\ cres \in {"EEXIST"} \cup OsErrors
     /\ \A s \in Sigs : disp[s] = pre[s]

\* C2 witness: the conflict was on the last managed signal, after the
\* earlier ones had been registered, and EEXIST came back.
C2_Witness ==
  /\ InitDone /\ ~cow /\ cres = "EEXIST"
  /\ pre[SigSeq[NSigs]] = "Custom"
  /\ \A i \in 1..(NSigs - 1) : pre[SigSeq[i]] = "SigDfl"

\* C3 as stated (no OS call failing): the second of two init_os_handler(false)
\* in a row returns EEXIST and the first bridge is still installed.
C3_AsStated ==
  (InitDone /\ ~cow /\ prev = <<"init", FALSE>> /\ cres \notin OsErrors) =>
     (cres = "EEXIST" /\ Installed)

\* C4 as stated (every restoring sigaction succeeding): after a successful
\* init_os_handler and then deinit_os_handler, every managed signal has the
\* disposition it had before init.
C4_AsStated ==
  (DeinitDone /\ prev[1] = "init" /\ dfail = {}) =>
     \A s \in Managed : disp[s] = pre[s]

\* C4 amended: after a successful init_os_handler and then
\* deinit_os_handler, deinit has returned Ok and every managed signal is at
\* its default (os_handler stays where the restoring sigaction failed);
\* that is the disposition before init when init was called with
\* overwrite = false, and with overwrite = true only for the signals that
\* were at their default.
C4_RoundTrip ==
  (DeinitDone /\ prev[1] = "init") =>
     /\ cres = "Ok"
     /\ \A s \in Managed :
          /\ disp[s] = (IF s \in dfail THEN "os_handler" ELSE "SigDfl")
          /\ (~prev[2] => pre[s] = "SigDfl")
          /\ (s \notin dfail /\ pre[s] = "SigDfl" => disp[s] = pre[s])

\* C4 witness: init(true) replaced a handler of another party, and after
\* deinit the signal is at its default.
C4_Witness ==
  /\ DeinitDone /\ prev = <<"init", TRUE>> /\ dfail = {}
  /\ pre["SIGINT"] = "Custom" /\ disp["SIGINT"] = "SigDfl"

\* deinit_os_handler has just been called while block_ctrl_c is asleep in
\* its read on the bridge's pipe, which holds no byte.
DeinitWhileAsleep ==
  cpc = "d_sig" /\ ci = 1 /\ AsleepOnBridge /\ buf[wp] = 0

\* C5 as stated: a block_ctrl_c call that is asleep in its read on the
\* bridge's pipe when deinit_os_handler is called eventually returns
\* HandlerRemoved (init_os_handler not being called again meanwhile).
C5_AsStated ==
  [](DeinitWhileAsleep =>
       <>((wpc = "done" /\ wres = "HandlerRemoved") \/ ccall = "init"))

\* C5 amended: a block_ctrl_c call that is asleep in its read on the
\* bridge's pipe when deinit_os_handler is called eventually returns, with
\* Ok(HandlerRemoved) or, when a handler's byte reaches the pipe before
\* the read comes back, Ok(Awaited); it returns no error and does not hang,
\* init_os_handler not being called again meanwhile.
C5_Returns ==
  [](DeinitWhileAsleep =>
       <>((wpc = "done" /\ wres \in {"HandlerRemoved", "Awaited"})
          \/ ccall = "init"))

\* C5 witness: deinit_os_handler has closed the write end of the pipe the
\* read is asleep on, no byte in it: the read comes back with 0.
C5_Witness ==
  /\ ccall = "deinit" /\ cpc \in {"close_r", "close_reset", "done"}
  /\ wpc = "blocked" /\ buf[wp] = 0 /\ Refs(wp) \subseteq {wfd}

\* block_ctrl_c is in a call that reads the bridge's pipe next.
WaiterOnBridge ==
  \/ wpc = "load"
  \/ wpc = "read" /\ wfd = PIPE[1]
  \/ AsleepOnBridge

\* The control thread is in no call.
Quiet == cpc \in {"idle", "done"}

\* C6: with the bridge installed and block_ctrl_c in a call on it, once the
\* kernel has dispatched os_handler the call eventually returns Awaited,
\* unless the control thread begins another call first.
C6_Awaited ==
  [](Quiet /\ Installed /\ hpc = "load" /\ WaiterOnBridge
       => <>((wpc = "done" /\ wres = "Awaited") \/ ~Quiet))

\* C6 witness: the call has returned Awaited from a read of the installed
\* bridge's pipe, with no call of the control thread in progress.
C6_Witness ==
  Quiet /\ Installed /\ wpc = "done" /\ wres = "Awaited" /\ wfd = PIPE[1]

\* C7 as stated: once a handler's byte is in the pipe of the installed
\* bridge, no call of the control thread in progress, a block_ctrl_c call
\* in progress on the bridge eventually returns Awaited, also when
\* deinit_os_handler runs later (init_os_handler not being called again).
C7_AsStated ==
  [](Quiet /\ Installed /\ WaiterOnBridge /\ buf[fdtab[PIPE[1]][1]] > 0
       => <>((wpc = "done" /\ wres = "Awaited") \/ ccall = "init"))

\* C8: deinit_os_handler called with PIPE = (-1, -1) returns ENOENT at once
\* and leaves PIPE, the dispositions, the descriptor table and the pipes
\* as they were.
C8_Step ==
  (cpc = "idle" /\ ccall' = "deinit" /\ PIPE = <<Sentinel, Sentinel>>) =>
     /\ cpc' = "done" /\ cres' = "ENOENT"
     /\ UNCHANGED <<PIPE, disp, fdtab, buf, nb>>
C8_NotFound == [][C8_Step]_vars

\* C8 witness: deinit_os_handler has returned ENOENT.
C8_Witness == DeinitDone /\ cres = "ENOENT" /\ PIPE = <<Sentinel, Sentinel>>

\* C9 as stated: a block_ctrl_c call that found no bridge (it loaded -1
\* from PIPE) returns an error.
C9_AsStated == (wpc = "done" /\ wfd = Sentinel) => wres = "Err"

\* C9 amended: a block_ctrl_c call that found no bridge (it loaded -1 from
\* PIPE) returns Ok(HandlerRemoved), not an error: the read fails with
\* EBADF, which the call maps to HandlerRemoved. Only deinit_os_handler
\* reports ENOENT.
C9_HandlerRemoved ==
  (wpc = "done" /\ wfd = Sentinel) => wres = "HandlerRemoved"

\* C9 witness: such a call has returned, before any bridge was installed.
C9_Witness ==
  wpc = "done" /\ wfd = Sentinel /\ wres = "HandlerRemoved" /\ FreeFds = Fds

\* C10 as stated: when deinit_os_handler has returned Ok, every managed
\* signal is at its default and os_handler is no longer run for it.
C10_AsStated ==
  (DeinitDone /\ cres = "Ok") =>
     \A s \in Managed : disp[s] = "SigDfl" /\ ~Intercepts(s)

\* C10 amended: when deinit_os_handler has returned Ok, every managed
\* signal whose restoring sigaction succeeded is at its default and
\* os_handler is no longer run for it; a signal whose restoring sigaction
\* failed keeps the disposition it had. PIPE is (-1, -1), so a handler
\* that still runs writes no byte to any pipe.
C10_Uninstalled ==
  (DeinitDone /\ cres = "Ok") =>
     /\ \A s \in Managed \ dfail : disp[s] = "SigDfl" /\ ~Intercepts(s)
     /\ PIPE = <<Sentinel, Sentinel>>
     /\ WriteResult(PIPE[2]) = "EBADF"

\* C10 witness: deinit_os_handler has returned Ok with every restoration
\* done, after SIGINT had been os_handler's.
C10_Witness ==
  /\ DeinitDone /\ cres = "Ok" /\ dfail = {}
  /\ prev[1] = "init" /\ \A s \in Managed : disp[s] = "SigDfl"

\* What the match of block_ctrl_c is to make of a read result.
Expected(r) ==
  IF r = "Ok1" THEN "Awaited"
  ELSE IF r \in {"Ok0", "EBADF"} THEN "HandlerRemoved"
  ELSE "Err"

\* C11: whatever the sequence of read results, a block_ctrl_c call that
\* has returned has returned Awaited for a one-byte read, HandlerRemoved
\* for a zero-byte read or EBADF, Err for any other error but EINTR, and
\* nothing else; the result it returned for is never EINTR; and a read
\* that gives EINTR returns nothing: the loop goes round to load PIPE and
\* read again.
C11_Step ==
  /\ (wpc = "done" /\ reads # <<>>) =>
        /\ reads[Len(reads)] # "EINTR"
        /\ wres = Expected(reads[Len(reads)])
  /\ (wpc = "read" /\ Len(reads') > Len(reads)
        /\ reads'[Len(reads')] = "EINTR") =>
        (wpc' = "load" /\ wres' = "none")
  /\ (wpc = "read" /\ Len(reads') > Len(reads)
        /\ reads'[Len(reads')] # "EINTR") => wpc' = "done"
C11_Match == [][C11_Step]_vars

\* C11 witness: a call has returned Err for an error other than EINTR and
\* EBADF, after a read that was interrupted and retried.
C11_Witness ==
  /\ wpc = "done" /\ wres = "Err" /\ Len(reads) >= 2
  /\ reads[Len(reads)] = "EIO" /\ reads[Len(reads) - 1] = "EINTR"

\* init_os_handler has failed at a registration or at a conflict test and
\* is over: it has returned the error of a sigaction or EEXIST, or, the
\* failure being at SIGTERM or SIGHUP, a restoring sigaction has failed
\* in its turn and unwrap has panicked out of the call.
FailedAfterSigint ==
  /\ termination /\ ccall = "init"
  /\ \/ cpc = "done" /\ cres \in {"EEXIST", "Err_sigaction"}
     \/ cpc = "panicked" /\ (cret = "Err_sigaction" \/ rn >= 2)

\* C12 as stated: when init_os_handler has failed at SIGTERM or SIGHUP,
\* every managed signal has the disposition it had before the call and
\* PIPE is (-1, -1), its pipe closed.
C12_AsStated ==
  FailedAfterSigint =>
     /\ \A s \in Managed : disp[s] = pre[s]
     /\ PIPE = <<Sentinel, Sentinel>>

\* C13: deinit_os_handler called with a bridge in PIPE does not return at
\* its entry and does not panic; when it returns, it returns Ok(()), PIPE
\* becomes (-1, -1) and the two descriptors PIPE held are closed, whether
\* or not the restoring sigactions succeeded.
C13_Step ==
  /\ (cpc = "idle" /\ ccall' = "deinit" /\ is_handler_init) =>
        cpc' = "d_sig"
  /\ (ccall = "deinit" /\ cpc \notin {"idle", "done"} /\ cpc' = "done") =>
        /\ cres' = "Ok" /\ PIPE' = <<Sentinel, Sentinel>>
        /\ ~IsOpen(PIPE[1]) /\ ~IsOpen(PIPE[2]) /\ fdtab' = fdtab
  /\ (ccall' = "deinit") => cpc' # "panicked"
C13_Teardown == [][C13_Step]_vars

\* C13 witness: deinit_os_handler has returned Ok although the restoring
\* sigaction of SIGINT failed; PIPE is (-1, -1) and no descriptor is open.
C13_Witness ==
  /\ DeinitDone /\ cres = "Ok" /\ "SIGINT" \in dfail
  /\ PIPE = <<Sentinel, Sentinel>> /\ FreeFds = Fds

\* C14 as stated: in every state PIPE is (-1, -1) or holds the open read
\* end and the open write end of one pipe.
C14_AsStated == PIPE = <<Sentinel, Sentinel>> \/ Installed

\* C14 amended: in every state PIPE is (-1, -1) or a pair of two different
\* descriptor numbers, never -1 next to a descriptor; and the pair is the
\* open read end and the open write end of one pipe in every state but
\* those inside close_pipe after its first close, where PIPE still names
\* the descriptors already closed until PIPE = (-1, -1) is executed.
C14_NeverMixed ==
  /\ \/ PIPE = <<Sentinel, Sentinel>>
     \/ PIPE[1] \in Fds /\ PIPE[2] \in Fds /\ PIPE[1] # PIPE[2]
  /\ (is_handler_init /\ cpc \notin {"close_r", "close_reset"}) => Installed

\* C14 witness: inside the close_pipe of deinit_os_handler the write end
\* is closed, the read end is open, and PIPE names both.
C14_Witness ==
  /\ ccall = "deinit" /\ cpc = "close_r" /\ is_handler_init
  /\ IsOpen(PIPE[1]) /\ ~IsOpen(PIPE[2])

\* The pipe of the installed bridge.
BridgePipe == fdtab[PIPE[1]][1]

\* C15: when os_handler, having loaded the write end of the installed
\* bridge, has made its write, the bridge's pipe holds at least one byte,
\* whether the write put one there or failed on a full buffer; and while
\* the same bridge stays installed the number of bytes in its pipe goes
\* down only by a read of block_ctrl_c that returns Awaited. So a byte is
\* pending from the handler's run until block_ctrl_c consumes one.
C15_Step ==
  /\ (Installed /\ hpc = "write" /\ hfd = PIPE[2] /\ hpc' = "idle") =>
        (Installed' /\ buf'[BridgePipe] >= 1)
  /\ (Installed /\ Installed' /\ PIPE' = PIPE /\ BridgePipe' = BridgePipe
        /\ buf'[BridgePipe] < buf[BridgePipe]) =>
        (wpc # "done" /\ wpc' = "done" /\ wres' = "Awaited"
           /\ buf'[BridgePipe] = buf[BridgePipe] - 1)
C15_Pending == [][C15_Step]_vars

\* C15 witness: os_handler is about to write to the installed bridge whose
\* buffer an earlier run has filled: this write fails with EAGAIN, and a
\* byte is pending.
C15_Witness ==
  /\ Quiet /\ Installed /\ hpc = "write" /\ hfd = PIPE[2]
  /\ WriteResult(hfd) = "EAGAIN" /\ buf[BridgePipe] >= 1

\* No descriptor is open but those PIPE names: init_os_handler has not
\* been called over an installed bridge.
NoLeak == \A fd \in Fds : IsOpen(fd) => fd \in {PIPE[1], PIPE[2]}

\* init_os_handler has put a new pipe in PIPE and has not made its write
\* end non-blocking: fcntl is still to come, or has failed and close_pipe
\* is still to come.
BeforeNonBlock ==
  cpc = "i_fcntl" \/ (cpc = "close_w" /\ cret = "Err_fcntl")

C16_Inv ==
  /\ (IsOpen(PIPE[2]) /\ ~BeforeNonBlock) => nb[fdtab[PIPE[2]][1]]
  /\ (hpc = "write" /\ WriteResult(hfd) = "block") => BeforeNonBlock
C16_Step ==
  /\ (hpc = "idle" /\ hpc' # "idle") => (hpc' = "load" /\ buf' = buf)
  /\ (hpc = "load" /\ hpc' # "load") => (hpc' = "write" /\ buf' = buf)
  /\ (hpc = "write" /\ hpc' # "write") =>
        /\ hpc' = "idle"
        /\ \A p \in Pipes : buf'[p] \in {buf[p], buf[p] + 1}
        /\ Cardinality({p \in Pipes : buf'[p] # buf[p]}) <= 1
C17_Step ==
  /\ (wpc # "read" /\ wpc' = "read") => (wpc = "load" /\ wfd' = PIPE[1])
  /\ (wpc = "blocked" /\ wpc' \notin {"blocked", "done"}) => wpc' = "load"
  /\ (wpc = "read" /\ wfd = Sentinel /\ wpc' # "read") =>
        (wpc' = "done" /\ wres' = "HandlerRemoved")
C17_Reload == [][C17_Step]_vars

\* C17 witness: the read was interrupted (the call is back at its load,
\* the descriptor of the last iteration still in its local) and
\* deinit_os_handler has returned Ok meanwhile, PIPE = (-1, -1).
C17_Witness ==
  /\ wpc = "load" /\ wfd \in Fds
  /\ DeinitDone /\ cres = "Ok" /\ PIPE = <<Sentinel, Sentinel>>

\* init_os_handler is being called while a bridge is in PIPE.
InitOverBridge == cpc = "idle" /\ ccall' = "init" /\ is_handler_init

\* The open descriptors are exactly those PIPE holds: both of them, or
\* none when PIPE is (-1, -1).
ExactlyPipe == {fd \in Fds : IsOpen(fd)} = {PIPE[1], PIPE[2]} \ {Sentinel}

\* C18: no step but a call of init_os_handler over an installed bridge
\* lets a descriptor be open that PIPE does not name; and whenever the
\* control thread is in no call (or has panicked out of one), the open
\* descriptors are exactly the two in PIPE, or none when PIPE is (-1, -1). So, init_os_handler being
\* called only with no bridge installed, no sequence of calls, whatever
\* fails in them, leaks a descriptor.
C18_Step ==
  (NoLeak /\ ~InitOverBridge) =>
     (NoLeak' /\ (cpc' \in {"idle", "done", "panicked"} => ExactlyPipe'))
C18_NoLeak == [][C18_Step]_vars

\* C18 witness: with the termination feature init_os_handler has failed
\* on a conflict at SIGHUP, after SIGINT and SIGTERM had been registered,
\* and no descriptor is left open.
C18_Witness ==
  /\ termination /\ InitDone /\ cres = "EEXIST"
  /\ pre["SIGINT"] = "SigDfl" /\ pre["SIGTERM"] = "SigDfl"
  /\ PIPE = <<Sentinel, Sentinel>> /\ FreeFds = Fds

\* C19: a block_ctrl_c call returns Awaited only by a step that takes a
\* byte out of one pipe that held one (one byte less in it, or the pipe
\* gone with that read when no descriptor referred to it any more), and
\* the bytes of a pipe grow only by a write of os_handler that succeeds,
\* one byte per write. So the calls that have returned Awaited are never
\* more than the successful writes of os_handler.
C19_Step ==
  /\ (wpc # "done" /\ wpc' = "done" /\ wres' = "Awaited") =>
        \E p \in Pipes :
          /\ buf[p] >= 1
          /\ \/ buf'[p] = buf[p] - 1
             \/ buf'[p] = 0 /\ Refs(p) = {}
          /\ \A q \in Pipes \ {p} : buf'[q] = buf[q]
  /\ (\E p \in Pipes : buf'[p] > buf[p]) =>
        /\ hpc = "write" /\ hpc' = "idle" /\ WriteResult(hfd) = "byte"
        /\ buf' = [buf EXCEPT ![fdtab[hfd][1]] = @ + 1]
C19_NotSpurious == [][C19_Step]_vars

\* C19 witness: a call has returned Awaited and the byte it read is gone
\* from the pipes.
C19_Witness ==
  /\ wpc = "done" /\ wres = "Awaited" /\ hpc = "idle"
  /\ \A p \in Pipes : buf[p] = 0

\* C20 as stated: whenever os_handler is at its write, the descriptor it
\* has loaded is the open write end of the bridge installed at that time.
C20_AsStated == hpc = "write" => (Installed /\ hfd = PIPE[2])

====
